---- MODULE Spec2Model ----
(***************************************************************************)
(* Model of src/src/http_handler.rs: one invocation of function_handler,   *)
(* with the remote collaborators (SSM parameter store, Supabase table,     *)
(* Expo push service) as nondeterministic environments.                    *)
(*                                                                         *)
(* Conventions.                                                            *)
(*  - Option<T> is a sequence: <<>> is None, <<v>> is Some(v).             *)
(*  - A parameter name is a sequence of atoms, the atom "/" being the      *)
(*    separator character and every other atom a '/'-free piece of text.   *)
(*  - A JSON value is a record [t, s, o]: t its type, s the text of a      *)
(*    string, o the members of an object (a function from member names).   *)
(*  - An outcome is a record [kind, status, key, msg]: an HTTP response    *)
(*    (status, the single member key of the JSON body and its text), an    *)
(*    Err(ApiError) returned to the runtime (key the variant, msg its      *)
(*    argument) or a panic.                                                *)
(***************************************************************************)
EXTENDS Integers, Sequences, FiniteSets, TLC

\* ---------------------------------------------------------------- bounds
MaxRows == 2
MaxDepth == 2

\* ------------------------------------------------------------ Option<T>
None == <<>>

Some(v) == <<v>>

IsSome(o) == o # <<>>

Unwrap(o) == o[1]

\* ------------------------------------------------------------ outcomes
NoOutcome == [kind |-> "none", status |-> 0, key |-> "", msg |-> ""]

Panic(m) == [kind |-> "panic", status |-> 0, key |-> "panic", msg |-> m]

\* Err(ApiError::variant(arg)) returned by function_handler through `?`
Err(variant, arg) == [kind |-> "error", status |-> 0, key |-> variant, msg |-> arg]

Response(status, key, msg) == [kind |-> "response", status |-> status, key |-> key, msg |-> msg]

create_error_response(status_code, message) == Response(status_code, "error", message)

FORBIDDEN == 403

BAD_REQUEST == 400

METHOD_NOT_ALLOWED == 405

INTERNAL_SERVER_ERROR == 500

OK == 200

\* ------------------------------------------------------- process environment
\* Values the API_KEY variable can hold; the last one holds a control
\* character, which HeaderValue::from_str refuses.
ApiKeyValues == {"key-A", "key-ctl"}

IsValidHeaderValue(s) == s # "key-ctl"

\* Values the x-api-key header of a request can carry (legal header values).
HeaderValues == {"key-A", "key-B"}

Environments == [API_KEY : {None} \cup {Some(k) : k \in ApiKeyValues},
                 SSM_PARAMETER_PATH : {None, Some("/expo-push-api")}]

\* ------------------------------------------------------------------ JSON
JNull == [t |-> "null", s |-> "", o |-> <<>>]

JNum == [t |-> "number", s |-> "", o |-> <<>>]

JArr == [t |-> "array", s |-> "", o |-> <<>>]

JStr(x) == [t |-> "string", s |-> x, o |-> <<>>]

JObj(members) == [t |-> "object", s |-> "", o |-> members]

\* serde_json Value indexing: json["key"] is Null unless json is an object
\* holding the key.
Index(json, key) ==
    IF json.t = "object" /\ key \in DOMAIN json.o THEN json.o[key] ELSE JNull

\* Value::as_str
as_str(v) == IF v.t = "string" THEN Some(v.s) ELSE None

\* ------------------------------------------------------------ push tokens
GoodToken == "ExponentPushToken[abc]"

BadToken == "x"

TokenStrings == {GoodToken, BadToken}

\* Expo::is_expo_push_token
is_expo_push_token(token) == token = GoodToken

\* ---------------------------------------------------------------- requests
BodyKeys == {"title", "body", "expo_push_token"}

FullObject == JObj([k \in BodyKeys |-> IF k = "title" THEN JStr("Hi")
                                      ELSE IF k = "body" THEN JStr("Test")
                                      ELSE JStr(GoodToken)])

\* Posted objects: the complete one, with either token; one member missing
\* or a number; two members missing; no member at all.
JsonObjects ==
    {FullObject, JObj([FullObject.o EXCEPT !["expo_push_token"] = JStr(BadToken)])}
    \cup { JObj([k \in BodyKeys \ {absent} |-> FullObject.o[k]]) : absent \in BodyKeys }
    \cup { JObj([FullObject.o EXCEPT ![k] = JNum]) : k \in BodyKeys }
    \cup { JObj([k \in {"title"} |-> JStr("Hi")]), JObj(<<>>) }

\* A text is what serde_json::from_str makes of it: no JSON at all, or a value.
Texts == {None} \cup {Some(j) : j \in JsonObjects \cup {JArr}}

\* lambda_http::Body: Empty, Text(String), Binary(bytes); bytes are either
\* not UTF-8 or the encoding of a text.
Bodies ==
    {[kind |-> "Empty", utf8 |-> TRUE, text |-> None]}
    \cup {[kind |-> "Text", utf8 |-> TRUE, text |-> t] : t \in Texts}
    \cup {[kind |-> "Binary", utf8 |-> FALSE, text |-> None],
          [kind |-> "Binary", utf8 |-> TRUE, text |-> None],
          [kind |-> "Binary", utf8 |-> TRUE, text |-> Some(FullObject)]}

Methods == {"GET", "POST", "PUT"}

Requests == [header : {None} \cup {Some(h) : h \in HeaderValues},
             method : Methods,
             body : Bodies]

NoRequest == [header |-> None, method |-> "", body |-> [kind |-> "Empty", utf8 |-> TRUE, text |-> None]]

\* --------------------------------------------------- SSM parameter store
REQUIRED_LEAVES == <<"expo-access-token", "supabase-url", "supabase-key">>

\* The name of a parameter d levels below the root: /seg/.../seg/leaf
RECURSIVE Prefix(_)
Prefix(d) == IF d = 0 THEN <<>> ELSE Prefix(d - 1) \o <<"/", "seg">>

ParamName(d, leaf) == Prefix(d) \o <<"/", leaf>>

ParamValue(leaf, v) ==
    IF leaf = "expo-access-token" THEN v
    ELSE IF leaf = "supabase-url" THEN "https://db.example" ELSE "sb-key"

\* Parameters the store may return besides the required ones: none, one
\* without a name, one without a value, one whose name ends with '/'.
OddParams(d) ==
    { <<>>,
      << [name |-> None, value |-> Some("orphan")] >>,
      << [name |-> Some(ParamName(d, "expo-access-token")), value |-> None] >>,
      << [name |-> Some(Prefix(d) \o <<"/">>), value |-> Some("slash")] >> }

ParamLists ==
    UNION { { odd \o SelectSeq([i \in 1..3 |-> [name |-> Some(ParamName(d, REQUIRED_LEAVES[i])),
                                                value |-> Some(ParamValue(REQUIRED_LEAVES[i], v))]],
                               LAMBDA p : \E i \in S : p.name = Some(ParamName(d, REQUIRED_LEAVES[i]))) :
                S \in SUBSET (1..3), v \in {"expo-tok-1", "expo-tok-2"}, odd \in OddParams(d) } :
            d \in 0..MaxDepth }

\* Outcomes of get_parameters_by_path().send(): an error, or a response
\* whose parameters member is None or a list.
SsmResponses ==
    {[ok |-> FALSE, parameters |-> None], [ok |-> TRUE, parameters |-> None]}
    \cup {[ok |-> TRUE, parameters |-> Some(l)] : l \in ParamLists}

\* name.split('/'): the pieces between the separators, at least one
RECURSIVE split(_)
split(name) ==
    IF \A i \in 1..Len(name) : name[i] # "/" THEN <<name>>
    ELSE LET i == CHOOSE k \in 1..Len(name) : name[k] = "/" /\ \A j \in 1..(k - 1) : name[j] # "/"
         IN  <<SubSeq(name, 1, i - 1)>> \o split(SubSeq(name, i + 1, Len(name)))

\* Iterator::last
last(s) == IF Len(s) = 0 THEN None ELSE Some(s[Len(s)])

\* Variant of leaf_key that takes the first piece after the leading '/'
\* (nth(1) in place of last).
leaf_key_first(name) ==
    LET pieces == split(name)
    IN  IF Len(pieces) >= 2 THEN Some(pieces[2]) ELSE Some(pieces[1])

\* The key under which a parameter name is stored: name.split('/').last()
leaf_key(name) == last(split(name))

\* Variant of get in which an absent key reads as an empty value
\* (unwrap_or_default in place of ok_or_else).
get_or_default(m, k) == IF k \in DOMAIN m THEN Some(m[k]) ELSE Some("")

\* HashMap: a function from keys to values; get gives an Option
EmptyMap == <<>>

insert(m, k, v) == [x \in (DOMAIN m) \cup {k} |-> IF x = k THEN v ELSE m[x]]

get(m, k) == IF k \in DOMAIN m THEN Some(m[k]) ELSE None

\* The key a string literal of the handler denotes
Key(literal) == <<literal>>

\* The loop of get_secrets over response.parameters
RECURSIVE collect_secrets(_, _)
collect_secrets(params, acc) ==
    IF Len(params) = 0 THEN acc
    ELSE LET param == params[1]
             next == IF IsSome(param.name) /\ IsSome(param.value) /\ IsSome(leaf_key(Unwrap(param.name)))
                     THEN insert(acc, Unwrap(leaf_key(Unwrap(param.name))), Unwrap(param.value))
                     ELSE acc
         IN  collect_secrets(Tail(params), next)

secrets_of(response) ==
    IF IsSome(response.parameters) THEN collect_secrets(Unwrap(response.parameters), EmptyMap)
    ELSE EmptyMap

\* ------------------------------------------------------- Supabase table
\* A row of "users": a JSON object with or without an expo_push_token member.
Rows ==
    { JObj(<<>>), JObj([k \in {"expo_push_token"} |-> JNum] ) }
    \cup { JObj([k \in {"expo_push_token"} |-> JStr(t)]) : t \in TokenStrings }

RowLists == UNION { [1..n -> Rows] : n \in 0..MaxRows }

\* Variant of filter_map_tokens that stops at the first row without a string
\* token (map_while in place of filter_map).
RECURSIVE filter_map_tokens_while(_)
filter_map_tokens_while(response) ==
    IF Len(response) = 0 THEN <<>>
    ELSE LET t == as_str(Index(response[1], "expo_push_token"))
         IN  IF IsSome(t) THEN <<Unwrap(t)>> \o filter_map_tokens_while(Tail(response)) ELSE <<>>

\* rows.iter().filter_map(|row| row["expo_push_token"].as_str()...).collect()
RECURSIVE filter_map_tokens(_)
filter_map_tokens(response) ==
    IF Len(response) = 0 THEN <<>>
    ELSE LET t == as_str(Index(response[1], "expo_push_token"))
         IN  (IF IsSome(t) THEN <<Unwrap(t)>> ELSE <<>>) \o filter_map_tokens(Tail(response))

\* ------------------------------------------------------------ extract_body
\* Ok(value) is <<"Ok", value>>, Err(InvalidBody) is <<"Err">>
extract_body(b) ==
    IF b.kind = "Text" \/ (b.kind = "Binary" /\ b.utf8)
    THEN (IF IsSome(b.text) THEN <<"Ok", Unwrap(b.text)>> ELSE <<"Err">>)
    ELSE <<"Err">>

\* ------------------------------------------------------------ literals
\* Variant of FixedTitle: the title of the ad-hoc requests.
FixedTitle_posted == "Hi"

FixedTitle == "25-nichi da yo"

FixedBody == "partner ni seikyuu shiyou"

NoTokensResponse == Response(OK, "message", "No push tokens found.")

SentResponse == Response(OK, "message", "Push notifications sent successfully")

SendFailedResponse == create_error_response(INTERNAL_SERVER_ERROR, "Failed to send some push notifications")

ForbiddenResponse == create_error_response(FORBIDDEN, "Forbidden: Invalid API Key")

\* Variant of InvalidTokenResponse: the rejection propagated as an ApiError.
InvalidTokenResponse_propagated == Err("BadRequest", "Invalid expo push token")

InvalidTokenResponse == create_error_response(BAD_REQUEST, "Invalid expo push token")

\* Variant of MethodNotAllowedResponse with the status of a bad request.
MethodNotAllowedResponse_400 == create_error_response(BAD_REQUEST, "Method not allowed")

MethodNotAllowedResponse == create_error_response(METHOD_NOT_ALLOWED, "Method not allowed")

\* ------------------------------------------------------------ decisions
\* Variant of key_mismatch that lets a request without the header through.
key_mismatch_absent_ok(header, expected_key_value) ==
    header # None /\ header # Some(expected_key_value)

\* Variant of key_mismatch: the comparison left out.
key_mismatch_never(header, expected_key_value) == FALSE

\* event.headers().get("x-api-key") != Some(&expected_key_value)
key_mismatch(header, expected_key_value) == header # Some(expected_key_value)

\* Variant of is_empty: the check left out.
is_empty_never(v) == FALSE

\* expo_push_tokens.is_empty()
is_empty(v) == Len(v) = 0

\* Variant of has_error with all in place of any.
has_error_all(rs) == \A i \in 1..Len(rs) : rs[i] = "err"

\* Variant of has_error testing is_ok in place of is_err.
has_error_inverted(rs) == \E i \in 1..Len(rs) : rs[i] = "ok"

\* results.iter().any(|r| r.is_err())
has_error(rs) == \E i \in 1..Len(rs) : rs[i] = "err"

\* Variant of join_ready that is ready at the first Err (try_join_all).
join_ready_first_error(ss) ==
    \/ \E i \in 1..Len(ss) : ss[i] = "err"
    \/ \A i \in 1..Len(ss) : ss[i] # "pending"

\* Variant of join_ready that never becomes ready.
join_ready_never(ss) == FALSE

\* join_all(send_futures).await is ready when every future is
join_ready(ss) == \A i \in 1..Len(ss) : ss[i] # "pending"

\* Variant of build_failed: a failed build is skipped (filter_map) and the
\* messages built so far go on.
build_failed_skipped(prefix, toks) == FALSE

\* collect::<Result<Vec<_>, _>>()? is Err when some build returned Err
build_failed(prefix, toks) == Len(prefix) < Len(toks)

\* Variant of ExpoPushMessage with title and body exchanged.
ExpoPushMessage_swapped(token, t, b) == [to |-> <<token>>, title |-> b, body |-> t]

\* ExpoPushMessage::builder(vec![token]).title(..).body(..).build(), when Ok
ExpoPushMessage(token, t, b) == [to |-> <<token>>, title |-> t, body |-> b]

\* The messages the map/collect of the handler builds before it stops: one
\* per token, in order, up to the first token whose build returns Err.
RECURSIVE build_prefix(_, _, _, _)
build_prefix(toks, t, b, rejected) ==
    IF Len(toks) = 0 \/ toks[1] \in rejected THEN <<>>
    ELSE <<ExpoPushMessage(toks[1], t, b)>> \o build_prefix(Tail(toks), t, b, rejected)

VARIABLES
    env,            \* process environment: API_KEY, SSM_PARAMETER_PATH
    req,            \* the request of the invocation
    pc,             \* position of function_handler
    outcome,        \* what function_handler returned
    ssmResponse,    \* Option: what the parameter store answered
    secrets,        \* the HashMap made by get_secrets
    expo_access_token, \* Option: the token given to Expo::new
    title,          \* Option: local title
    body,           \* Option: local body
    json_body,      \* Option: the parsed request body
    rows,           \* Option: what the users table answered
    expo_push_tokens, \* local expo_push_tokens
    built,          \* messages whose build returned Ok, in order
    messages,       \* local messages (the batch handed to the sends)
    sends,          \* per message of the batch: "pending", "ok" or "err"
    launched,       \* per message of the batch: how often its send was started
    results,        \* local results, after join_all
    ssmReads,       \* bulk reads issued to the parameter store (this call)
    clientInits,    \* SupabaseClient::new calls
    storeQueries,   \* select("users") queries issued
    bodyReads,      \* extract_body calls
    earlier         \* Option: the access token the call before this one used

locals == <<ssmResponse, secrets, expo_access_token, title, body, json_body, rows,
            expo_push_tokens, built, messages, sends, launched, results>>

counters == <<ssmReads, clientInits, storeQueries, bodyReads>>

vars == <<env, req, pc, outcome, locals, counters, earlier>>

Init ==
    /\ env \in Environments
    /\ req = NoRequest
    /\ pc = "idle"
    /\ outcome = NoOutcome
    /\ ssmResponse = None
    /\ secrets = EmptyMap
    /\ expo_access_token = None
    /\ title = None
    /\ body = None
    /\ json_body = None
    /\ rows = None
    /\ expo_push_tokens = <<>>
    /\ built = <<>>
    /\ messages = <<>>
    /\ sends = <<>>
    /\ launched = <<>>
    /\ results = <<>>
    /\ ssmReads = 0
    /\ clientInits = 0
    /\ storeQueries = 0
    /\ bodyReads = 0
    /\ earlier = None

\* function_handler returns: a response, an Err or a panic ends the invocation
Return(o) ==
    /\ outcome' = o
    /\ pc' = "done"

\* The runtime hands one request to function_handler.
Invoke ==
    /\ pc = "idle"
    /\ \E r \in Requests : req' = r
    /\ pc' = "auth"
    /\ UNCHANGED <<env, earlier, outcome, locals, counters>>

\* 1. API key check (lines 125-130)
Authenticate ==
    /\ pc = "auth"
    /\ IF env.API_KEY = None
       THEN Return(Panic("API_KEY not set"))
       ELSE IF ~IsValidHeaderValue(Unwrap(env.API_KEY))
       THEN Return(Err("InvalidApiKey", ""))
       ELSE IF key_mismatch(req.header, Unwrap(env.API_KEY))
       THEN Return(ForbiddenResponse)
       ELSE pc' = "secrets" /\ UNCHANGED outcome
    /\ UNCHANGED <<env, earlier, req, locals, counters>>

\* 2. get_secrets().await? (lines 36-73, 138)
GetSecrets ==
    /\ pc = "secrets"
    /\ IF env.SSM_PARAMETER_PATH = None
       THEN /\ Return(Err("MissingEnvVar", "SSM_PARAMETER_PATH"))
            /\ UNCHANGED <<ssmResponse, secrets, ssmReads>>
       ELSE /\ ssmReads' = ssmReads + 1
            /\ \E response \in SsmResponses :
                 /\ ssmResponse' = Some(response)
                 /\ IF ~response.ok
                    THEN Return(Err("SsmError", "")) /\ UNCHANGED secrets
                    ELSE /\ secrets' = secrets_of(response)
                         /\ pc' = "expo"
                         /\ UNCHANGED outcome
    /\ UNCHANGED <<env, earlier, req, expo_access_token, title, body, json_body, rows,
                   expo_push_tokens, built, messages, sends, launched, results,
                   clientInits, storeQueries, bodyReads>>

\* secrets.get("expo-access-token") and Expo::new (lines 139-145)
NewExpo ==
    /\ pc = "expo"
    /\ IF get(secrets, Key("expo-access-token")) = None
       THEN Return(Err("MissingSecret", "expo-access-token")) /\ UNCHANGED expo_access_token
       ELSE /\ expo_access_token' = get(secrets, Key("expo-access-token"))
            /\ pc' = "match"
            /\ UNCHANGED outcome
    /\ UNCHANGED <<env, earlier, req, ssmResponse, secrets, title, body, json_body, rows,
                   expo_push_tokens, built, messages, sends, launched, results,
                   counters>>

\* 3. "GET" arm up to initialize_supabase_client (lines 153-156, 75-87);
\* SupabaseClient::new returns Ok or Err.
MatchGet ==
    /\ pc = "match"
    /\ req.method = "GET"
    /\ title' = Some(FixedTitle)
    /\ body' = Some(FixedBody)
    /\ IF get(secrets, Key("supabase-url")) = None
       THEN Return(Err("MissingSecret", "supabase-url")) /\ UNCHANGED clientInits
       ELSE IF get(secrets, Key("supabase-key")) = None
       THEN Return(Err("MissingSecret", "supabase-key")) /\ UNCHANGED clientInits
       ELSE /\ clientInits' = clientInits + 1
            /\ \/ Return(Err("SupabaseInitialization", ""))
               \/ pc' = "fetch" /\ UNCHANGED outcome
    /\ UNCHANGED <<env, earlier, req, ssmResponse, secrets, expo_access_token, json_body, rows,
                   expo_push_tokens, built, messages, sends, launched, results,
                   ssmReads, storeQueries, bodyReads>>

\* fetch_expo_push_tokens(&supabase_client).await? (lines 89-101, 157)
FetchTokens ==
    /\ pc = "fetch"
    /\ storeQueries' = storeQueries + 1
    /\ \/ Return(Err("SupabaseFetch", "")) /\ UNCHANGED <<rows, expo_push_tokens>>
       \/ \E response \in RowLists :
            /\ rows' = Some(response)
            /\ expo_push_tokens' = filter_map_tokens(response)
            /\ pc' = "empty"
            /\ UNCHANGED outcome
    /\ UNCHANGED <<env, earlier, req, ssmResponse, secrets, expo_access_token, title, body, json_body,
                   built, messages, sends, launched, results,
                   ssmReads, clientInits, bodyReads>>

\* 3. "POST" arm (lines 159-179, 103-111)
MatchPost ==
    /\ pc = "match"
    /\ req.method = "POST"
    /\ bodyReads' = bodyReads + 1
    /\ LET parsed == extract_body(req.body)
           value == parsed[2]
           t == as_str(Index(value, "title"))
           b == as_str(Index(value, "body"))
           token == as_str(Index(value, "expo_push_token"))
       IN  IF parsed[1] = "Err"
           THEN /\ Return(Err("InvalidBody", ""))
                /\ UNCHANGED <<json_body, title, body, expo_push_tokens>>
           ELSE /\ json_body' = Some(value)
                /\ IF t = None
                   THEN /\ Return(Err("BadRequest", "Title is required"))
                        /\ UNCHANGED <<title, body, expo_push_tokens>>
                   ELSE /\ title' = t
                        /\ IF b = None
                           THEN /\ Return(Err("BadRequest", "Body is required"))
                                /\ UNCHANGED <<body, expo_push_tokens>>
                           ELSE /\ body' = b
                                /\ IF token = None
                                   THEN /\ Return(Err("BadRequest", "expo_push_token is required"))
                                        /\ UNCHANGED expo_push_tokens
                                   ELSE IF is_expo_push_token(Unwrap(token))
                                   THEN /\ expo_push_tokens' = Append(expo_push_tokens, Unwrap(token))
                                        /\ pc' = "empty"
                                        /\ UNCHANGED outcome
                                   ELSE /\ Return(InvalidTokenResponse)
                                        /\ UNCHANGED expo_push_tokens
    /\ UNCHANGED <<env, earlier, req, ssmResponse, secrets, expo_access_token, rows,
                   built, messages, sends, launched, results,
                   ssmReads, clientInits, storeQueries>>

\* 3. any other method (line 180)
MatchOther ==
    /\ pc = "match"
    /\ req.method \notin {"GET", "POST"}
    /\ Return(MethodNotAllowedResponse)
    /\ UNCHANGED <<env, earlier, req, locals, counters>>

\* expo_push_tokens.is_empty() (lines 183-193)
EmptyCheck ==
    /\ pc = "empty"
    /\ IF is_empty(expo_push_tokens)
       THEN Return(NoTokensResponse)
       ELSE pc' = "build" /\ UNCHANGED outcome
    /\ UNCHANGED <<env, earlier, req, locals, counters>>

\* 4. build one message per token, stop at the first Err (lines 200-209);
\* which tokens the builder of the Expo crate refuses is not decided here.
BuildMessages ==
    /\ pc = "build"
    /\ \E rejected \in SUBSET TokenStrings :
         LET prefix == build_prefix(expo_push_tokens, Unwrap(title), Unwrap(body), rejected)
         IN  /\ built' = prefix
             /\ IF build_failed(prefix, expo_push_tokens)
                THEN Return(Err("PushMessageBuild", "")) /\ UNCHANGED messages
                ELSE /\ messages' = prefix
                     /\ pc' = "send"
                     /\ UNCHANGED outcome
    /\ UNCHANGED <<env, earlier, req, ssmResponse, secrets, expo_access_token, title, body, json_body,
                   rows, expo_push_tokens, sends, launched, results, counters>>

\* 5. one send future per message, all polled by join_all (lines 213-218)
LaunchSends ==
    /\ pc = "send"
    /\ sends' = [i \in 1..Len(messages) |-> "pending"]
    /\ launched' = [i \in 1..Len(messages) |-> 1]
    /\ pc' = "join"
    /\ UNCHANGED <<env, earlier, req, outcome, ssmResponse, secrets, expo_access_token, title, body,
                   json_body, rows, expo_push_tokens, built, messages, results,
                   counters>>

\* Variant of CompleteSend in which a send that failed is submitted once more.
CompleteSend_retry ==
    /\ pc = "join"
    /\ \E i \in 1..Len(sends) :
         /\ sends[i] = "pending"
         /\ \/ sends' = [sends EXCEPT ![i] = "ok"] /\ UNCHANGED launched
            \/ /\ launched[i] < 2
               /\ launched' = [launched EXCEPT ![i] = @ + 1]
               /\ UNCHANGED sends
            \/ /\ launched[i] >= 2
               /\ sends' = [sends EXCEPT ![i] = "err"]
               /\ UNCHANGED launched
    /\ UNCHANGED <<env, earlier, req, pc, outcome, ssmResponse, secrets, expo_access_token, title, body,
                   json_body, rows, expo_push_tokens, built, messages,
                   results, counters>>

\* The Expo service answers one pending send, with Ok or Err.
CompleteSend ==
    /\ pc = "join"
    /\ \E i \in 1..Len(sends) :
         /\ sends[i] = "pending"
         /\ \E r \in {"ok", "err"} : sends' = [sends EXCEPT ![i] = r]
    /\ UNCHANGED <<env, earlier, req, pc, outcome, ssmResponse, secrets, expo_access_token, title, body,
                   json_body, rows, expo_push_tokens, built, messages, launched,
                   results, counters>>

\* join_all is ready when every send is; then has_error decides (lines 218-238)
Aggregate ==
    /\ pc = "join"
    /\ join_ready(sends)
    /\ results' = sends
    /\ IF has_error(sends) THEN Return(SendFailedResponse) ELSE Return(SentResponse)
    /\ UNCHANGED <<env, earlier, req, ssmResponse, secrets, expo_access_token, title, body,
                   json_body, rows, expo_push_tokens, built, messages, sends,
                   launched, counters>>

Next ==
    \/ Invoke
    \/ Authenticate
    \/ GetSecrets
    \/ NewExpo
    \/ MatchGet
    \/ FetchTokens
    \/ MatchPost
    \/ MatchOther
    \/ EmptyCheck
    \/ BuildMessages
    \/ LaunchSends
    \/ CompleteSend
    \/ Aggregate

Spec == Init /\ [][Next]_vars

\* Every remote call returns and the runtime keeps polling the handler: a
\* step that can be taken is taken.
FairSpec == Spec /\ WF_vars(Next)

\* The locals of a new call of function_handler
FreshLocals ==
    /\ ssmResponse' = None
    /\ expo_access_token' = None
    /\ title' = None
    /\ body' = None
    /\ json_body' = None
    /\ rows' = None
    /\ expo_push_tokens' = <<>>
    /\ built' = <<>>
    /\ messages' = <<>>
    /\ sends' = <<>>
    /\ launched' = <<>>
    /\ results' = <<>>
    /\ ssmReads' = 0
    /\ clientInits' = 0
    /\ storeQueries' = 0
    /\ bodyReads' = 0

\* Variant of Reinvoke in which the Secret Set of the earlier call is kept
\* (a process-wide cache).
Reinvoke_cached ==
    /\ pc = "done"
    /\ req' = NoRequest
    /\ pc' = "idle"
    /\ outcome' = NoOutcome
    /\ FreshLocals
    /\ earlier' = expo_access_token
    /\ UNCHANGED <<env, secrets>>

\* function_handler has returned and the process waits for the next request:
\* the environment stays, every local is dropped, the counters start again.
Reinvoke ==
    /\ pc = "done"
    /\ req' = NoRequest
    /\ pc' = "idle"
    /\ outcome' = NoOutcome
    /\ FreshLocals
    /\ secrets' = EmptyMap
    /\ earlier' = expo_access_token
    /\ UNCHANGED env

NextSeq == Next \/ Reinvoke

\* A process serving one request after another
SpecSeq == Init /\ [][NextSeq]_vars

\* ==================================================================
\* Properties
\* ==================================================================

\* The request carried the expected API key and the key is usable.
Authenticated ==
    /\ IsSome(env.API_KEY)
    /\ IsValidHeaderValue(Unwrap(env.API_KEY))
    /\ req.header = env.API_KEY

\* Config resolution succeeded: get_secrets returned Ok and the Secret Set
\* held expo-access-token.
ConfigResolved == IsSome(expo_access_token)

\* The request body holds a JSON text.
BodyIsJson ==
    /\ req.body.kind \in {"Text", "Binary"}
    /\ req.body.utf8
    /\ IsSome(req.body.text)

\* Member k of the posted JSON is a string.
PostedString(k) ==
    LET v == Unwrap(req.body.text)
    IN  v.t = "object" /\ k \in DOMAIN v.o /\ v.o[k].t = "string"

PostedText(k) == Unwrap(req.body.text).o[k].s

AllFieldsStrings == \A k \in {"title", "body", "expo_push_token"} : PostedString(k)

\* ---- C1
\* C1 (as stated): every invocation whose x-api-key header is absent or
\* differs from the expected API key is answered 403
\* {"error": "Forbidden: Invalid API Key"}, whatever method and body.
C1_AsStated ==
    (pc \notin {"idle", "auth"} /\ IsSome(env.API_KEY) /\ req.header # env.API_KEY)
        => outcome = [kind |-> "response", status |-> 403, key |-> "error",
                      msg |-> "Forbidden: Invalid API Key"]

\* C1 (amended): when API_KEY holds a legal header value, every invocation
\* whose x-api-key header is absent or differs from it ends with 403
\* {"error": "Forbidden: Invalid API Key"}, whatever method and body.
C1_Forbidden ==
    (/\ pc \notin {"idle", "auth"}
     /\ IsSome(env.API_KEY)
     /\ IsValidHeaderValue(Unwrap(env.API_KEY))
     /\ req.header # env.API_KEY)
        => /\ pc = "done"
           /\ outcome = [kind |-> "response", status |-> 403, key |-> "error",
                         msg |-> "Forbidden: Invalid API Key"]

C1_Witness ==
    /\ pc = "done"
    /\ env.API_KEY = Some("key-A")
    /\ req.header = None
    /\ req.method = "POST"
    /\ req.body.text = Some(FullObject)
    /\ outcome.status = 403

\* ---- C2
\* C2: a dispatched batch with at least one failed send, wherever it is and
\* whatever the other sends did, is answered 500
\* {"error": "Failed to send some push notifications"}.
C2_AnyFailure500 ==
    (pc = "done" /\ Len(launched) > 0 /\ \E i \in 1..Len(sends) : sends[i] = "err")
        => outcome = [kind |-> "response", status |-> 500, key |-> "error",
                      msg |-> "Failed to send some push notifications"]

C2_Witness ==
    /\ pc = "done"
    /\ Len(sends) >= 2
    /\ \E i, j \in 1..Len(sends) : sends[i] = "err" /\ sends[j] = "ok"
    /\ outcome.status = 500

\* ---- C3
\* C3: a dispatched batch whose sends all succeeded is answered 200
\* {"message": "Push notifications sent successfully"}.
C3_AllSuccess200 ==
    (pc = "done" /\ Len(launched) > 0 /\ \A i \in 1..Len(sends) : sends[i] = "ok")
        => outcome = [kind |-> "response", status |-> 200, key |-> "message",
                      msg |-> "Push notifications sent successfully"]

C3_Witness ==
    /\ pc = "done"
    /\ Len(sends) >= 2
    /\ \A i \in 1..Len(sends) : sends[i] = "ok"
    /\ outcome.status = 200

\* ---- C4
\* C4: when the recipient list is empty after the method branch, the next
\* step ends the invocation with 200 {"message": "No push tokens found."},
\* and no message has been built and no send launched.
C4_EmptyIsNoOp ==
    [][(pc = "empty" /\ Len(expo_push_tokens) = 0)
         => /\ pc' = "done"
            /\ outcome' = [kind |-> "response", status |-> 200, key |-> "message",
                           msg |-> "No push tokens found."]
            /\ built' = <<>>
            /\ messages' = <<>>
            /\ launched' = <<>>]_vars

C4_Witness ==
    /\ pc = "done"
    /\ req.method = "GET"
    /\ IsSome(rows)
    /\ Len(Unwrap(rows)) > 0
    /\ Len(expo_push_tokens) = 0
    /\ outcome.msg = "No push tokens found."

\* ---- C5
\* C5 (as stated): an authenticated POST whose JSON body lacks one of
\* title, body, expo_push_token, or holds a non-string there, ends with an
\* HTTP 400 response, and no send is attempted. Stated for the invocations
\* that got as far as parsing the body.
C5_AsStated ==
    (/\ pc = "done"
     /\ Authenticated
     /\ req.method = "POST"
     /\ IsSome(json_body)
     /\ ~AllFieldsStrings)
        => /\ outcome.kind = "response"
           /\ outcome.status = 400
           /\ launched = <<>>

C7_AsStated ==
    (pc = "done" /\ Authenticated /\ req.method \notin {"GET", "POST"})
        => outcome = [kind |-> "response", status |-> 405, key |-> "error",
                      msg |-> "Method not allowed"]

\* C7 (amended): every authenticated request with a method other than GET
\* and POST, in an invocation whose config resolution succeeded, is
\* answered 405 {"error": "Method not allowed"}, whatever else the Secret
\* Set holds.
C7_MethodNotAllowed ==
    (pc = "done" /\ Authenticated /\ ConfigResolved /\ req.method \notin {"GET", "POST"})
        => outcome = [kind |-> "response", status |-> 405, key |-> "error",
                      msg |-> "Method not allowed"]

C7_Witness ==
    /\ pc = "done"
    /\ Authenticated
    /\ ConfigResolved
    /\ req.method = "PUT"
    /\ <<"supabase-url">> \notin DOMAIN secrets
    /\ outcome.status = 405

\* ---- C8
\* C8 (as stated): every authenticated POST with string title, body and a
\* token passing the format predicate builds exactly one message, carrying
\* that token and the request's title and body, and launches exactly one
\* send.
C8_AsStated ==
    (/\ pc = "done"
     /\ Authenticated
     /\ req.method = "POST"
     /\ BodyIsJson
     /\ AllFieldsStrings
     /\ PostedText("expo_push_token") = GoodToken)
        => /\ built = << [to |-> <<PostedText("expo_push_token")>>,
                          title |-> PostedText("title"),
                          body |-> PostedText("body")] >>
           /\ launched = <<1>>

\* C8 (amended): every authenticated POST with string title, body and a
\* token passing the format predicate, in an invocation whose config
\* resolution succeeded and whose message build returned Ok, builds exactly
\* one message, carrying that token and the request's title and body, and
\* launches exactly one send.
C8_OneMessageOneSend ==
    (/\ pc = "done"
     /\ Authenticated
     /\ ConfigResolved
     /\ outcome.key # "PushMessageBuild"
     /\ req.method = "POST"
     /\ BodyIsJson
     /\ AllFieldsStrings
     /\ PostedText("expo_push_token") = GoodToken)
        => /\ built = << [to |-> <<PostedText("expo_push_token")>>,
                          title |-> PostedText("title"),
                          body |-> PostedText("body")] >>
           /\ messages = built
           /\ launched = <<1>>

C8_Witness ==
    /\ pc = "done"
    /\ Authenticated
    /\ req.method = "POST"
    /\ req.body.text = Some(FullObject)
    /\ Len(built) = 1
    /\ built[1].title = "Hi"
    /\ built[1].body = "Test"
    /\ launched = <<1>>
    /\ outcome.status = 200

\* ---- C9
\* Indices of the rows that hold a string under expo_push_token.
StringRows(r) ==
    { i \in 1..Len(r) : /\ r[i].t = "object"
                        /\ "expo_push_token" \in DOMAIN r[i].o
                        /\ r[i].o["expo_push_token"].t = "string" }

\* The k-th smallest element of a set of numbers.
Kth(S, k) == CHOOSE i \in S : Cardinality({ j \in S : j < i }) = k - 1

\* C9: for a GET trigger whose query answered, the recipient list is the
\* token strings of the rows that hold one, in row order; the other rows add
\* no token and no message and cause no error.
C9_TokensAreStringRows ==
    IsSome(rows) =>
        LET r == Unwrap(rows)
            S == StringRows(r)
        IN  /\ Len(expo_push_tokens) = Cardinality(S)
            /\ \A k \in 1..Len(expo_push_tokens) :
                 expo_push_tokens[k] = r[Kth(S, k)].o["expo_push_token"].s
            /\ Len(built) <= Cardinality(S)
            /\ outcome.key # "SupabaseFetch"

C9_Witness ==
    /\ pc = "done"
    /\ IsSome(rows)
    /\ Len(Unwrap(rows)) = 2
    /\ StringRows(Unwrap(rows)) = {2}
    /\ expo_push_tokens = <<GoodToken>>
    /\ Len(built) = 1
    /\ outcome.status = 200

ValidationRejected ==
    /\ pc = "done"
    /\ \/ outcome.kind = "response" /\ outcome.status \in {400, 403}
       \/ outcome.kind = "error" /\ outcome.key \in {"InvalidBody", "BadRequest"}

\* C11 (as stated): when a validation-class rejection is produced, no
\* config-store read, recipient-store query or send has been issued, and the
\* rejection is a 4xx response.
C11_AsStated ==
    ValidationRejected
        => /\ ssmReads = 0
           /\ storeQueries = 0
           /\ launched = <<>>
           /\ outcome.kind = "response"
           /\ outcome.status \in 400..499

\* ---- C12
\* C12: once the batch is dispatched one send has been launched for every
\* built message, and the invocation ends (with the aggregate response) only
\* when every send has completed with Ok or Err; a failed send leaves the
\* others launched and awaited.
C12_JoinAll ==
    Len(launched) > 0
        => /\ Len(launched) = Len(built)
           /\ Len(sends) = Len(built)
           /\ built = messages
           /\ \A i \in 1..Len(launched) : launched[i] >= 1
           /\ (pc = "done" =>
                 /\ \A i \in 1..Len(sends) : sends[i] \in {"ok", "err"}
                 /\ results = sends
                 /\ outcome.kind = "response"
                 /\ outcome.status \in {200, 500})
           /\ (pc # "done" => outcome.kind = "none")

C12_Witness ==
    /\ pc = "done"
    /\ launched = <<1, 1>>
    /\ sends[1] = "err"
    /\ sends[2] = "ok"
    /\ results = sends

\* ---- C13
\* The parameters of the answer of the parameter store, when it answered.
ReturnedParams ==
    IF IsSome(ssmResponse) /\ Unwrap(ssmResponse).ok /\ IsSome(Unwrap(ssmResponse).parameters)
    THEN Unwrap(Unwrap(ssmResponse).parameters)
    ELSE <<>>

\* name is <prefix>/<leaf>: leaf is what follows the last '/' of name.
IsLeafOf(leaf, name) ==
    \E k \in 1..Len(name) :
        /\ name[k] = "/"
        /\ \A j \in (k + 1)..Len(name) : name[j] # "/"
        /\ leaf = SubSeq(name, k + 1, Len(name))

\* C13: every returned parameter with a name <prefix>/<leaf>, the prefix of
\* any depth, and a value is held by the Secret Set under <leaf> with that
\* value; so the value stored at <prefix>/expo-access-token is the one the
\* lookup of expo-access-token finds.
C13_LeafExtraction ==
    pc \notin {"idle", "auth", "secrets"} =>
        \A i \in 1..Len(ReturnedParams) :
            LET p == ReturnedParams[i]
            IN  (IsSome(p.name) /\ IsSome(p.value)) =>
                    \A leaf \in {"expo-access-token", "supabase-url", "supabase-key"} :
                        IsLeafOf(<<leaf>>, Unwrap(p.name)) =>
                            /\ <<leaf>> \in DOMAIN secrets
                            /\ secrets[<<leaf>>] = Unwrap(p.value)
                            /\ (leaf = "expo-access-token" /\ pc \notin {"expo"}
                                  => expo_access_token = p.value)

C13_Witness ==
    /\ pc = "match"
    /\ \E i \in 1..Len(ReturnedParams) :
         /\ ReturnedParams[i].name = Some(<<"/", "seg", "/", "seg", "/", "expo-access-token">>)
         /\ ReturnedParams[i].value = Some("expo-tok-2")
    /\ expo_access_token = Some("expo-tok-2")

\* ---- C14
\* Names of the required secrets the Secret Set lacks.
MissingSecrets ==
    { leaf \in {"expo-access-token", "supabase-url", "supabase-key"} : <<leaf>> \notin DOMAIN secrets }

\* The parameter store answered, so that a Secret Set exists.
SecretsFetched == IsSome(ssmResponse) /\ Unwrap(ssmResponse).ok

\* C14 (as stated): every authenticated invocation whose Secret Set lacks
\* one of the three required keys fails with MissingSecret naming an absent
\* key, and no message is built and no send launched. Stated for the POST
\* requests that carry three string fields and a well-formed token.
C14_AsStated ==
    (/\ pc = "done"
     /\ Authenticated
     /\ SecretsFetched
     /\ MissingSecrets # {}
     /\ req.method = "POST"
     /\ BodyIsJson
     /\ AllFieldsStrings
     /\ PostedText("expo_push_token") = GoodToken)
        => /\ outcome.kind = "error"
           /\ outcome.key = "MissingSecret"
           /\ outcome.msg \in MissingSecrets
           /\ built = <<>>
           /\ launched = <<>>

\* C14 (amended): an authenticated invocation whose Secret Set lacks
\* expo-access-token fails with MissingSecret(expo-access-token), whatever
\* the method; a GET invocation whose Secret Set holds expo-access-token but
\* lacks supabase-url, or else supabase-key, fails with MissingSecret naming
\* that key (supabase-url first); in these cases no message is built and no
\* send is launched.
C14_MissingSecretFails ==
    (pc = "done" /\ Authenticated /\ SecretsFetched)
        => LET expected ==
                   IF "expo-access-token" \in MissingSecrets THEN "expo-access-token"
                   ELSE IF req.method # "GET" THEN ""
                   ELSE IF "supabase-url" \in MissingSecrets THEN "supabase-url"
                   ELSE IF "supabase-key" \in MissingSecrets THEN "supabase-key"
                   ELSE ""
           IN  expected # "" =>
                   /\ outcome = [kind |-> "error", status |-> 0, key |-> "MissingSecret",
                                 msg |-> expected]
                   /\ built = <<>>
                   /\ launched = <<>>
                   /\ storeQueries = 0

C14_Witness ==
    /\ pc = "done"
    /\ Authenticated
    /\ req.method = "GET"
    /\ MissingSecrets = {"supabase-key"}
    /\ outcome.key = "MissingSecret"
    /\ outcome.msg = "supabase-key"
    /\ clientInits = 0

\* ---- C15
\* C15: each built message is handed to the send at most once, and exactly
\* once when the batch is dispatched; the parameter store is read at most
\* once and the users table queried at most once, also when they failed.
C15_NoRetry ==
    /\ ssmReads <= 1
    /\ clientInits <= 1
    /\ storeQueries <= 1
    /\ Len(launched) \in {0, Len(built)}
    /\ \A i \in 1..Len(launched) : launched[i] = 1
    /\ (pc = "join" \/ Len(results) > 0) => (Len(launched) = Len(messages) /\ Len(messages) > 0)
    /\ (outcome.key = "SsmError" => ssmReads = 1)
    /\ (outcome.key = "SupabaseFetch" => storeQueries = 1)

C15_Witness ==
    /\ pc = "done"
    /\ sends = <<"err", "err">>
    /\ launched = <<1, 1>>
    /\ storeQueries = 1
    /\ ssmReads = 1

\* ---- C16
\* C16: when the build of the message of one token fails, the invocation
\* ends with Err(PushMessageBuild) and no send is launched for any token,
\* the tokens built before the failing one included.
C16_AllOrNothing ==
    (pc \notin {"empty", "build"} /\ Len(built) < Len(expo_push_tokens))
        => /\ pc = "done"
           /\ outcome = [kind |-> "error", status |-> 0, key |-> "PushMessageBuild", msg |-> ""]
           /\ messages = <<>>
           /\ sends = <<>>
           /\ launched = <<>>

C16_Witness ==
    /\ pc = "done"
    /\ expo_push_tokens = <<GoodToken, BadToken>>
    /\ Len(built) = 1
    /\ built[1].to = <<GoodToken>>
    /\ outcome.key = "PushMessageBuild"
    /\ launched = <<>>

\* ---- C17
\* C17 (as stated): every invocation that passed authentication has issued
\* exactly one bulk read of the parameter store once get_secrets is over.
C17_AsStated ==
    (Authenticated /\ pc \notin {"idle", "auth", "secrets"}) => ssmReads = 1

\* C17 (amended): every invocation that passed authentication issues at
\* most one bulk read of the parameter store, before branching on the
\* method, and exactly one when SSM_PARAMETER_PATH is set; a call starts
\* without a Secret Set, and the Secret Set and access token it uses come
\* from the answer to its own read, never from an earlier call.
C17_OneReadNoCache ==
    /\ pc \in {"idle", "auth", "secrets"}
          => /\ ssmReads = 0
             /\ ssmResponse = None
             /\ secrets = <<>>
             /\ expo_access_token = None
    /\ (Authenticated /\ pc \notin {"idle", "auth", "secrets"})
          => ssmReads = (IF IsSome(env.SSM_PARAMETER_PATH) THEN 1 ELSE 0)
    /\ \A k \in DOMAIN secrets :
          \E i \in 1..Len(ReturnedParams) :
              /\ IsSome(ReturnedParams[i].name)
              /\ IsLeafOf(k, Unwrap(ReturnedParams[i].name))
              /\ ReturnedParams[i].value = Some(secrets[k])
    /\ IsSome(expo_access_token)
          => \E i \in 1..Len(ReturnedParams) :
                 /\ IsSome(ReturnedParams[i].name)
                 /\ IsLeafOf(<<"expo-access-token">>, Unwrap(ReturnedParams[i].name))
                 /\ ReturnedParams[i].value = expo_access_token

C17_Witness ==
    /\ pc = "done"
    /\ IsSome(earlier)
    /\ IsSome(expo_access_token)
    /\ earlier # expo_access_token
    /\ ssmReads = 1

\* ---- C18
\* C18: when every remote call returns, an invocation reaches a terminal
\* outcome (a response, or a failure handed to the runtime); there is an
\* outcome exactly when the handler is over, it never changes, and nothing
\* happens after it.
C18_OneTerminalOutcome ==
    /\ [](pc = "done" <=> outcome.kind \in {"response", "error", "panic"})
    /\ [](pc # "done" <=> outcome.kind = "none")
    /\ [][outcome.kind # "none" => outcome' = outcome]_vars
    /\ [][pc = "done" => UNCHANGED vars]_vars
    /\ (pc = "auth") ~> (pc = "done")

C18_Witness ==
    /\ pc = "done"
    /\ sends = <<"ok", "err">>
    /\ results = sends
    /\ outcome.kind = "response"
    /\ ssmReads = 1
    /\ storeQueries = 1

\* ---- C19
\* C19: an invocation rejected at the key check (403) has read no
\* parameter, initialised no store client, queried no table, read no body,
\* built no message and launched no send.
C19_ForbiddenIsInert ==
    (\/ outcome.status = 403
     \/ /\ pc \notin {"idle", "auth"}
        /\ IsSome(env.API_KEY)
        /\ IsValidHeaderValue(Unwrap(env.API_KEY))
        /\ req.header # env.API_KEY)
        => /\ ssmReads = 0
           /\ ssmResponse = None
           /\ clientInits = 0
           /\ storeQueries = 0
           /\ bodyReads = 0
           /\ built = <<>>
           /\ launched = <<>>

C19_Witness ==
    /\ pc = "done"
    /\ outcome.status = 403
    /\ req.method = "GET"
    /\ req.header = Some("key-B")
    /\ ssmReads = 0

\* ---- C20
\* C20: a POST invocation never initialises the store client, never queries
\* the table and never fails for supabase-url or supabase-key; a GET
\* invocation never reads the request body, and its title and body are the
\* fixed literals whatever the request carries.
C20_DisjointSources ==
    /\ req.method = "POST"
          => /\ clientInits = 0
             /\ storeQueries = 0
             /\ rows = None
             /\ outcome.key \notin {"SupabaseInitialization", "SupabaseFetch"}
             /\ outcome.msg \notin {"supabase-url", "supabase-key"}
    /\ req.method = "GET"
          => /\ bodyReads = 0
             /\ json_body = None
             /\ outcome.key \notin {"InvalidBody", "BadRequest"}
             /\ (IsSome(title) => title = Some("25-nichi da yo"))
             /\ (IsSome(body) => body = Some("partner ni seikyuu shiyou"))
             /\ \A i \in 1..Len(built) :
                    /\ built[i].title = "25-nichi da yo"
                    /\ built[i].body = "partner ni seikyuu shiyou"

C20_Witness ==
    /\ pc = "done"
    /\ req.method = "GET"
    /\ req.body.text = Some(FullObject)
    /\ Len(built) = 2
    /\ built[1].title = "25-nichi da yo"
    /\ bodyReads = 0
    /\ outcome.status = 200
====
